---------------------------- MODULE Spec2Model ----------------------------
(***************************************************************************)
(* Model of the BCH VMB test-vector generator:                             *)
(*   src/src/lib/vmb-tests/bch-vmb-test-utils.ts  (plan resolver, test     *)
(*       definition expander, partitioner)                                 *)
(*   src/unnamed/part_000                         (generation script)      *)
(*                                                                         *)
(* Strings are TLA+ strings; arrays are sequences; an optional value is    *)
(* None (absent / undefined) or Some(v).                                   *)
(***************************************************************************)
EXTENDS Integers, Sequences, FiniteSets, TLC

\* ------------------------------------------------------------------ bounds
MaxShortIdLength == 6
MaxInputIndex == 1
MaxTests == 2

\* ------------------------------------------------------- optional values
None == <<>>
Some(v) == <<v>>
IsSome(o) == Len(o) = 1
OrElse(o, d) == IF IsSome(o) THEN o[1] ELSE d

\* ------------------------------------------------------- string helpers
\* Array.prototype.join(sep) on an array of strings
RECURSIVE Join(_, _)
Join(list, sep) ==
  IF Len(list) = 0 THEN ""
  ELSE IF Len(list) = 1 THEN list[1]
  ELSE list[1] \o sep \o Join(Tail(list), sep)

\* String.prototype.includes(needle)
Includes(s, needle) ==
  \E k \in 1..(Len(s) - Len(needle) + 1) :
    SubSeq(s, k, k + Len(needle) - 1) = needle

\* String.prototype.slice(0, end) for an integer end
Min(a, b) == IF a < b THEN a ELSE b
Max(a, b) == IF a > b THEN a ELSE b
Slice0(s, end) ==
  LET e == IF end < 0 THEN Max(Len(s) + end, 0) ELSE Min(end, Len(s))
  IN SubSeq(s, 1, e)

\* ------------------------------------------------- external collaborators
\* flattenBinArray: concatenation of the byte arrays
RECURSIVE flattenBinArray(_)
flattenBinArray(bins) ==
  IF Len(bins) = 0 THEN <<>> ELSE Head(bins) \o flattenBinArray(Tail(bins))

\* sha256.hash: a deterministic digest of a byte array (4 bytes here)
RECURSIVE DigestLanes(_, _, _)
DigestLanes(bin, a, c) ==
  IF Len(bin) = 0 THEN <<a, c>>
  ELSE LET a2 == (a * 251 + Head(bin) + 1) % 65521
       IN DigestLanes(Tail(bin), a2, (c + a2) % 65521)

sha256Hash(bin) ==
  LET l == DigestLanes(bin, 1, 0)
  IN <<l[1] \div 256, l[1] % 256, l[2] \div 256, l[2] % 256>>

\* bits of one word, most significant first
RECURSIVE WordBits(_, _)
WordBits(value, width) ==
  IF width = 0 THEN <<>>
  ELSE WordBits(value \div 2, width - 1) \o <<value % 2>>

RECURSIVE BitsOf(_, _)
BitsOf(bin, width) ==
  IF Len(bin) = 0 THEN <<>>
  ELSE WordBits(Head(bin), width) \o BitsOf(Tail(bin), width)

RECURSIVE BitsValue(_)
BitsValue(bits) ==
  IF Len(bits) = 0 THEN 0
  ELSE 2 * BitsValue(SubSeq(bits, 1, Len(bits) - 1)) + bits[Len(bits)]

RECURSIVE GroupBits(_, _)
GroupBits(bits, width) ==
  IF Len(bits) = 0 THEN <<>>
  ELSE IF Len(bits) < width
    THEN <<BitsValue(bits \o [k \in 1..(width - Len(bits)) |-> 0])>>
  ELSE <<BitsValue(SubSeq(bits, 1, width))>>
         \o GroupBits(SubSeq(bits, width + 1, Len(bits)), width)

\* regroupBits with padding allowed (the default)
regroupBits(bin, resultWordLength, sourceWordLength) ==
  GroupBits(BitsOf(bin, sourceWordLength), resultWordLength)

Bech32Charset == "qpzry9x8gf2tvdw0s3jn54khce6mua7l"

RECURSIVE encodeBech32(_)
encodeBech32(words) ==
  IF Len(words) = 0 THEN ""
  ELSE SubSeq(Bech32Charset, Head(words) + 1, Head(words) + 1)
         \o encodeBech32(Tail(words))

HexDigits == "0123456789abcdef"

RECURSIVE binToHex(_)
binToHex(bin) ==
  IF Len(bin) = 0 THEN ""
  ELSE SubSeq(HexDigits, (Head(bin) \div 16) + 1, (Head(bin) \div 16) + 1)
         \o SubSeq(HexDigits, (Head(bin) % 16) + 1, (Head(bin) % 16) + 1)
         \o binToHex(Tail(bin))

\* encodeTransaction / encodeTransactionOutputs: binary encodings
encodeTransaction(transaction) ==
  <<transaction.version, Len(transaction.inputs)>> \o transaction.inputs
    \o <<transaction.locktime>>

encodeTransactionOutputs(outputs) == <<Len(outputs)>> \o outputs


\* ------------------------------------------------------------ static data
defaultShortIdLength == 5

PlanItem(mode, sets) == [mode |-> mode, sets |-> sets]

\* the literal the table is initialised with
TestSetOverridesLiteral ==
  ("" :> << PlanItem("nonP2SH", <<"2021_nonstandard", "2022_nonstandard">>),
            PlanItem("P2SH20", <<"2021_standard", "2022_standard">>) >>)
  @@ ("2021_invalid" :>
         << PlanItem("nonP2SH", <<"2021_invalid", "2022_nonstandard">>),
            PlanItem("P2SH20", <<"2021_invalid", "2022_standard">>) >>)
  @@ ("2021_invalid,2022_nonstandard" :>
         << PlanItem("nonP2SH", <<"2021_invalid", "2022_nonstandard">>),
            PlanItem("P2SH20", <<"2021_invalid", "2022_nonstandard">>) >>)
  @@ ("2021_invalid,2022_nonstandard,p2sh_ignore" :>
         << PlanItem("nonP2SH", <<"2021_invalid", "2022_nonstandard">>) >>)
  @@ ("2021_invalid,nonP2sh20_invalid" :>
         << PlanItem("nonP2SH", <<"2021_invalid", "2022_invalid">>),
            PlanItem("P2SH20", <<"2021_invalid", "2022_standard">>) >>)
  @@ ("2021_invalid,nonP2sh_invalid" :>
         << PlanItem("nonP2SH", <<"2021_invalid", "2022_invalid">>),
            PlanItem("P2SH20", <<"2021_invalid", "2022_standard">>) >>)
  @@ ("2021_invalid,p2sh_ignore" :>
         << PlanItem("nonP2SH", <<"2021_invalid", "2022_nonstandard">>) >>)
  @@ ("2021_invalid,p2sh_invalid" :>
         << PlanItem("nonP2SH", <<"2021_invalid", "2022_nonstandard">>),
            PlanItem("P2SH20", <<"2021_invalid", "2022_invalid">>) >>)
  @@ ("invalid" :>
         << PlanItem("nonP2SH", <<"2021_invalid", "2022_invalid">>),
            PlanItem("P2SH20", <<"2021_invalid", "2022_invalid">>) >>)
  @@ ("invalid,2022_nonP2sh_nonstandard" :>
         << PlanItem("nonP2SH", <<"2021_invalid", "2022_nonstandard">>),
            PlanItem("P2SH20", <<"2021_invalid", "2022_invalid">>) >>)
  @@ ("invalid,2022_p2sh_standard" :>
         << PlanItem("nonP2SH", <<"2021_invalid", "2022_invalid">>),
            PlanItem("P2SH20", <<"2021_invalid", "2022_standard">>) >>)
  @@ ("invalid,nonP2sh_nonstandard" :>
         << PlanItem("nonP2SH", <<"2021_nonstandard", "2022_nonstandard">>),
            PlanItem("P2SH20", <<"2021_invalid", "2022_invalid">>) >>)
  @@ ("invalid,p2sh_ignore" :>
         << PlanItem("nonP2SH", <<"2021_invalid", "2022_invalid">>) >>)
  @@ ("nonstandard" :>
         << PlanItem("nonP2SH", <<"2021_nonstandard", "2022_nonstandard">>),
            PlanItem("P2SH20", <<"2021_nonstandard", "2022_nonstandard">>) >>)
  @@ ("nonstandard,p2sh_invalid" :>
         << PlanItem("nonP2SH", <<"2021_nonstandard", "2022_nonstandard">>),
            PlanItem("P2SH20", <<"2021_invalid", "2022_invalid">>) >>)

\* the label lists the type TestSetOverrideListBCH admits
TestSetOverrideListBCH ==
  { <<"2021_invalid", "2022_nonstandard", "p2sh_ignore">>,
    <<"2021_invalid", "2022_nonstandard">>,
    <<"2021_invalid", "nonP2sh_invalid">>,
    <<"2021_invalid", "nonP2sh20_invalid">>,
    <<"2021_invalid", "p2sh_ignore">>,
    <<"2021_invalid", "p2sh_invalid">>,
    <<"2021_invalid">>,
    <<"invalid", "2022_nonP2sh_nonstandard">>,
    <<"invalid", "2022_p2sh_standard">>,
    <<"invalid", "nonP2sh_nonstandard">>,
    <<"invalid", "p2sh_ignore">>,
    <<"invalid">>,
    <<"nonstandard", "p2sh_invalid">>,
    <<"nonstandard">>,
    <<>> }

\* variant: the P2SH20 entry copied from the nonP2SH one
unlockingScriptIdOfCopied(mode) ==
  CASE mode = "P2SH20" -> "unlockStandard"
    [] mode = "P2SH32" -> "unlockP2sh32"
    [] mode = "nonP2SH" -> "unlockStandard"

\* unlockingScriptId chosen for a plan item's mode
unlockingScriptIdOf(mode) ==
  CASE mode = "P2SH20" -> "unlockP2sh20"
    [] mode = "P2SH32" -> "unlockP2sh32"
    [] mode = "nonP2SH" -> "unlockStandard"

VARIABLES
  pc,                             \* which run is in progress and where it is
  supportedTestSetOverridesBCH,   \* the exported table object
  \* --- one call of vmbTestDefinitionToVmbTests
  args, testDefinition, groupName, shortIdLength,
  testGenerationPlan, planIndex, tests, invocations, genThrown, genReturned,
  \* --- one run of the generation script
  outputDir, vmbTestsBch, allTestCases, partitionedTestCases, entryIndex,
  files, console, scriptThrown

genVars == <<args, testDefinition, groupName, shortIdLength, testGenerationPlan,
             planIndex, tests, invocations, genThrown, genReturned>>
scriptVars == <<outputDir, vmbTestsBch, allTestCases, partitionedTestCases,
                entryIndex, files, console, scriptThrown>>
vars == <<pc, supportedTestSetOverridesBCH, genVars, scriptVars>>

\* variant: absent labels resolved differently from an empty label list
planTestsBCHAbsentDiffers(labels) ==
  IF labels = None
  THEN supportedTestSetOverridesBCH["nonstandard"]
  ELSE supportedTestSetOverridesBCH[Join(labels[1], ",")]

\* planTestsBCH: supportedTestSetOverridesBCH[(labels ?? []).join(',')]
planTestsBCH(labels) ==
  supportedTestSetOverridesBCH[Join(OrElse(labels, <<>>), ",")]

\* the template literal of the description
descriptionOf(group, testDescription, mode) ==
  group \o ": " \o testDescription \o " (" \o mode \o ")"

\* the short identifier of one generated test
shortIdOf(encodedTx, encodedSourceOutputs, length) ==
  Slice0(encodeBech32(regroupBits(
           sha256Hash(flattenBinArray(<<encodedTx, encodedSourceOutputs>>)),
           5, 8)),
         length)

\* variant: the description is hashed into the short id
testCaseOfDescriptionInId(definition, group, length, planItem, program) ==
  LET encodedTx == encodeTransaction(program.transaction)
      encodedSourceOutputs == encodeTransactionOutputs(program.sourceOutputs)
      description == descriptionOf(group, definition.testDescription, planItem.mode)
      testCase == << shortIdOf(encodedTx \o <<Len(description)>>,
                               encodedSourceOutputs, length),
                     description,
                     definition.unlockingScript,
                     definition.redeemOrLockingScript,
                     binToHex(encodedTx),
                     binToHex(encodedSourceOutputs),
                     planItem.sets >>
  IN IF program.inputIndex = 0 THEN testCase
     ELSE testCase \o <<program.inputIndex>>

\* variant: inputIndex appended whatever its value
testCaseOfAlwaysIndex(definition, group, length, planItem, program) ==
  LET encodedTx == encodeTransaction(program.transaction)
      encodedSourceOutputs == encodeTransactionOutputs(program.sourceOutputs)
  IN << shortIdOf(encodedTx, encodedSourceOutputs, length),
        descriptionOf(group, definition.testDescription, planItem.mode),
        definition.unlockingScript,
        definition.redeemOrLockingScript,
        binToHex(encodedTx),
        binToHex(encodedSourceOutputs),
        planItem.sets,
        program.inputIndex >>

\* the value the map callback returns for a successfully generated scenario
testCaseOf(definition, group, length, planItem, program) ==
  LET encodedTx == encodeTransaction(program.transaction)
      encodedSourceOutputs == encodeTransactionOutputs(program.sourceOutputs)
      testCase == << shortIdOf(encodedTx, encodedSourceOutputs, length),
                     descriptionOf(group, definition.testDescription, planItem.mode),
                     definition.unlockingScript,
                     definition.redeemOrLockingScript,
                     binToHex(encodedTx),
                     binToHex(encodedSourceOutputs),
                     planItem.sets >>
  IN IF program.inputIndex = 0 THEN testCase
     ELSE testCase \o <<program.inputIndex>>

errorMessageOf(description, detail) ==
  "Error while generating \"" \o description \o "\" - " \o detail

\* ------------------------------------------------------- inputs of a call
Transactions == [version : {1, 2}, inputs : {<<7>>}, locktime : {0}]
SourceOutputsChoices == {<<10>>, <<10, 20>>}
Programs == [transaction : Transactions, sourceOutputs : SourceOutputsChoices,
             inputIndex : 0..MaxInputIndex]
NoProgram == [transaction |-> [version |-> 1, inputs |-> <<7>>, locktime |-> 0],
              sourceOutputs |-> <<10>>, inputIndex |-> 0]

\* what compiler.generateScenario can give back
ScenarioResults ==
  { [kind |-> "error", message |-> "unknown unlocking script", program |-> NoProgram],
    [kind |-> "scenarioError", message |-> "cannot generate scenario", program |-> NoProgram] }
  \cup { [kind |-> "ok", message |-> "", program |-> p] : p \in Programs }

TestDefinitions ==
  [ unlockingScript : {"<1>"},
    redeemOrLockingScript : {"OP_DROP", "OP_1"},
    testDescription : {"works"},
    testSetOverrideLabels : {None} \cup { Some(l) : l \in TestSetOverrideListBCH } ]
NoDefinition == [unlockingScript |-> "", redeemOrLockingScript |-> "",
                 testDescription |-> "", testSetOverrideLabels |-> None]
GroupNames == {None, Some("Basic")}
ShortIdLengths == {None} \cup { Some(n) : n \in 0..MaxShortIdLength }

Init ==
  /\ pc = "idle"
  /\ supportedTestSetOverridesBCH = TestSetOverridesLiteral
  /\ args = [groupName |-> None, shortIdLength |-> None]
  /\ testDefinition = NoDefinition
  /\ groupName = ""
  /\ shortIdLength = defaultShortIdLength
  /\ testGenerationPlan = <<>>
  /\ planIndex = 0
  /\ tests = <<>>
  /\ invocations = <<>>
  /\ genThrown = None
  /\ genReturned = None
  /\ outputDir = None
  /\ vmbTestsBch = <<>>
  /\ allTestCases = <<>>
  /\ partitionedTestCases = <<>>
  /\ entryIndex = 0
  /\ files = <<>>
  /\ console = <<>>
  /\ scriptThrown = None

\* vmbTestDefinitionToVmbTests is entered: parameters (with their defaults),
\* the plan lookup, and the compiler is created
CallDefinitionToVmbTests ==
  /\ pc = "idle"
  /\ \E d \in TestDefinitions, g \in GroupNames, n \in ShortIdLengths :
       /\ args' = [groupName |-> g, shortIdLength |-> n]
       /\ testDefinition' = d
       /\ groupName' = OrElse(g, "")
       /\ shortIdLength' = OrElse(n, defaultShortIdLength)
       /\ testGenerationPlan' = planTestsBCH(d.testSetOverrideLabels)
  /\ planIndex' = 1
  /\ tests' = <<>>
  /\ pc' = "map"
  /\ UNCHANGED <<supportedTestSetOverridesBCH, invocations, genThrown,
                 genReturned, scriptVars>>

\* variant: a failed generation is recorded and the map goes on
MapPlanItemKeepsGoing ==
  /\ pc = "map"
  /\ planIndex <= Len(testGenerationPlan)
  /\ LET planItem == testGenerationPlan[planIndex]
         description == descriptionOf(groupName, testDefinition.testDescription,
                                      planItem.mode)
     IN \E result \in ScenarioResults :
          /\ invocations' = Append(invocations,
                [debug |-> TRUE, scenarioId |-> "test",
                 unlockingScriptId |-> unlockingScriptIdOf(planItem.mode),
                 result |-> result])
          /\ planIndex' = planIndex + 1
          /\ IF result.kind # "ok"
             THEN /\ genThrown' = Some(errorMessageOf(description, result.message))
                  /\ UNCHANGED tests
             ELSE /\ tests' = Append(tests,
                         testCaseOf(testDefinition, groupName, shortIdLength,
                                    planItem, result.program))
                  /\ UNCHANGED genThrown
          /\ IF planIndex = Len(testGenerationPlan)
             THEN pc' = "returned" /\ genReturned' = Some(tests')
             ELSE pc' = "map" /\ UNCHANGED genReturned
  /\ UNCHANGED <<supportedTestSetOverridesBCH, args, testDefinition, groupName,
                 shortIdLength, testGenerationPlan, scriptVars>>

\* one run of the callback of testGenerationPlan.map; after the last item the
\* function returns the mapped list
MapPlanItem ==
  /\ pc = "map"
  /\ planIndex <= Len(testGenerationPlan)
  /\ LET planItem == testGenerationPlan[planIndex]
         description == descriptionOf(groupName, testDefinition.testDescription,
                                      planItem.mode)
     IN \E result \in ScenarioResults :
          /\ invocations' = Append(invocations,
                [debug |-> TRUE, scenarioId |-> "test",
                 unlockingScriptId |-> unlockingScriptIdOf(planItem.mode),
                 result |-> result])
          /\ IF result.kind # "ok"
             THEN /\ genThrown' = Some(errorMessageOf(description, result.message))
                  /\ pc' = "thrown"
                  /\ UNCHANGED <<tests, planIndex, genReturned>>
             ELSE LET built == Append(tests,
                         testCaseOf(testDefinition, groupName, shortIdLength,
                                    planItem, result.program))
                  IN /\ tests' = built
                     /\ planIndex' = planIndex + 1
                     /\ UNCHANGED genThrown
                     /\ IF planIndex = Len(testGenerationPlan)
                        THEN pc' = "returned" /\ genReturned' = Some(built)
                        ELSE pc' = "map" /\ UNCHANGED genReturned
  /\ UNCHANGED <<supportedTestSetOverridesBCH, args, testDefinition, groupName,
                 shortIdLength, testGenerationPlan, scriptVars>>

\* ------------------------------------------------------------ partitioner
\* variant: inputIndex dropped together with testSets
withoutSetsOfNoIndex(testCase) == SubSeq(testCase, 1, 6)

\* the tuple stored in each set: the master tuple without its testSets
withoutSetsOf(testCase) ==
  SubSeq(testCase, 1, 6) \o (IF Len(testCase) < 8 THEN <<>> ELSE <<testCase[8]>>)

\* variant: the assignment without the spread of the previous list
assignAppendOverwrites(accumulatedTestSets, testSet, withoutSets) ==
  IF \E k \in 1..Len(accumulatedTestSets) : accumulatedTestSets[k].key = testSet
  THEN [k \in 1..Len(accumulatedTestSets) |->
          IF accumulatedTestSets[k].key = testSet
          THEN [key |-> testSet, value |-> <<withoutSets>>]
          ELSE accumulatedTestSets[k]]
  ELSE Append(accumulatedTestSets, [key |-> testSet, value |-> <<withoutSets>>])

\* accumulatedTestSets[testSet] = [...(accumulatedTestSets[testSet] ?? []), t]
\* on an object kept as its entries in insertion order
assignAppend(accumulatedTestSets, testSet, withoutSets) ==
  IF \E k \in 1..Len(accumulatedTestSets) : accumulatedTestSets[k].key = testSet
  THEN [k \in 1..Len(accumulatedTestSets) |->
          IF accumulatedTestSets[k].key = testSet
          THEN [key |-> testSet,
                value |-> Append(accumulatedTestSets[k].value, withoutSets)]
          ELSE accumulatedTestSets[k]]
  ELSE Append(accumulatedTestSets, [key |-> testSet, value |-> <<withoutSets>>])

\* testSets.forEach(...)
RECURSIVE forEachTestSet(_, _, _)
forEachTestSet(accumulatedTestSets, testSets, withoutSets) ==
  IF Len(testSets) = 0 THEN accumulatedTestSets
  ELSE forEachTestSet(assignAppend(accumulatedTestSets, Head(testSets), withoutSets),
                      Tail(testSets), withoutSets)

\* masterTestList.reduce(..., {})
RECURSIVE reduceMaster(_, _)
reduceMaster(accumulatedTestSets, masterTestList) ==
  IF Len(masterTestList) = 0 THEN accumulatedTestSets
  ELSE LET testCase == Head(masterTestList)
       IN reduceMaster(forEachTestSet(accumulatedTestSets, testCase[7],
                                      withoutSetsOf(testCase)),
                       Tail(masterTestList))

vmbTestPartitionMasterTestList(masterTestList) == reduceMaster(<<>>, masterTestList)

\* ----------------------------------------------------------------- script
testGroupsAndTypes == 2

\* Array.prototype.flat(depth) on arrays nested at least depth deep
RECURSIVE Flat(_, _)
RECURSIVE ConcatAll(_, _)
ConcatAll(arr, depth) ==
  IF Len(arr) = 0 THEN <<>>
  ELSE Flat(Head(arr), depth) \o ConcatAll(Tail(arr), depth)
Flat(arr, depth) == IF depth = 0 THEN arr ELSE ConcatAll(arr, depth - 1)

\* path.resolve of one argument, from the working directory
WorkingDirectory == "/work"
resolve(path) ==
  IF Len(path) > 0 /\ SubSeq(path, 1, 1) = "/" THEN path
  ELSE WorkingDirectory \o "/" \o path

\* JSON.stringify
RECURSIVE jsonEscape(_)
jsonEscape(str) ==
  IF Len(str) = 0 THEN ""
  ELSE LET c == SubSeq(str, 1, 1)
       IN (IF c = "\"" \/ c = "\\" THEN "\\" \o c ELSE c) \o jsonEscape(Tail(str))
jsonString(str) == "\"" \o jsonEscape(str) \o "\""
RECURSIVE jsonItems(_)
jsonItems(items) ==
  IF Len(items) = 0 THEN ""
  ELSE IF Len(items) = 1 THEN Head(items)
  ELSE Head(items) \o "," \o jsonItems(Tail(items))
jsonArray(items) == "[" \o jsonItems(items) \o "]"
jsonStrings(strs) == jsonArray([k \in 1..Len(strs) |-> jsonString(strs[k])])
jsonVmbTest(t) ==
  jsonArray([k \in 1..Len(t) |->
               IF k <= 6 THEN jsonString(t[k]) ELSE ToString(t[k])])
jsonMasterTest(t) ==
  jsonArray([k \in 1..Len(t) |->
               IF k <= 6 THEN jsonString(t[k])
               ELSE IF k = 7 THEN jsonStrings(t[k]) ELSE ToString(t[k])])
jsonTestSet(testSet) ==
  jsonArray([k \in 1..Len(testSet) |-> jsonVmbTest(testSet[k])])
jsonMasterList(list) ==
  jsonArray([k \in 1..Len(list) |-> jsonMasterTest(list[k])])

masterFilePath(outputAbsolutePath) == outputAbsolutePath \o "/bch_vmb_tests.json"

\* variant: every set written directly under the output directory
filepathOfFlat(outputAbsolutePath, testSetName) ==
  outputAbsolutePath \o "/bch_vmb_tests_" \o testSetName \o ".json"

\* the path chosen for one test set
filepathOf(outputAbsolutePath, testSetName) ==
  IF Includes(testSetName, "chip")
  THEN outputAbsolutePath \o "/CHIPs/bch_vmb_tests_" \o testSetName \o ".json"
  ELSE outputAbsolutePath \o "/bch_vmb_tests_" \o testSetName \o ".json"

\* ----------------------------------------------------- inputs of the script
OutputDirs == {None, Some("out")}

\* two master vectors without their testSets: one for input 0 (no inputIndex
\* field) and one for another input
MasterBase(id) ==
  IF id = 1
  THEN <<"qqqsy", "Basic: works (nonP2SH)", "<1>", "OP_DROP", "0100", "010a">>
  ELSE <<"pzry9", "Basic: \"x\" (P2SH20)", "<0>", "OP_1", "0101", "020a14">>
MasterIndex(id) == IF id = 1 THEN <<>> ELSE <<MaxInputIndex>>

TestSetLists ==
  { <<>>,
    <<"2021_invalid">>,
    <<"chip_loops_standard", "2021_invalid">>,
    <<"2022_standard", "2022_standard">> }

MasterVectors ==
  { MasterBase(id) \o <<sets>> \o MasterIndex(id) :
      id \in {1, 2}, sets \in TestSetLists }

MasterLists == UNION { [1..n -> MasterVectors] : n \in 0..MaxTests }

\* how a list of vectors is nested in vmbTestsBch: for each vector, whether it
\* continues the current definition (0), opens a definition (1) or a group (2)
Splits(n) == { b \in [1..n -> 0..2] : n > 0 => b[1] = 2 }

RECURSIVE NestDefinitions(_, _)
NestDefinitions(list, b) ==
  IF Len(list) = 0 THEN <<>>
  ELSE LET rest == NestDefinitions(SubSeq(list, 1, Len(list) - 1),
                                   SubSeq(b, 1, Len(list) - 1))
           last == list[Len(list)]
       IN IF b[Len(list)] = 0
          THEN [rest EXCEPT ![Len(rest)].tests = Append(@, last)]
          ELSE Append(rest, [level |-> b[Len(list)], tests |-> <<last>>])

RECURSIVE NestGroups(_)
NestGroups(defs) ==
  IF Len(defs) = 0 THEN <<>>
  ELSE LET rest == NestGroups(SubSeq(defs, 1, Len(defs) - 1))
           last == defs[Len(defs)]
       IN IF last.level = 1
          THEN [rest EXCEPT ![Len(rest)] = Append(@, last.tests)]
          ELSE Append(rest, <<last.tests>>)

Nest(list, b) == NestGroups(NestDefinitions(list, b))

\* variant: the argument check left out
StartScriptNoCheck ==
  /\ pc = "idle"
  /\ \E dir \in OutputDirs, list \in MasterLists :
       \E b \in Splits(Len(list)) :
         /\ outputDir' = dir
         /\ vmbTestsBch' = Nest(list, b)
         /\ allTestCases' = Flat(Nest(list, b), testGroupsAndTypes)
         /\ console' = <<"Generating vmb_tests...",
                         "Generated vmb_tests. Writing files...">>
         /\ pc' = "writeMaster"
         /\ UNCHANGED scriptThrown
  /\ UNCHANGED <<supportedTestSetOverridesBCH, genVars, partitionedTestCases,
                 entryIndex, files>>

\* the script up to its first write: the argument check and the flattening
StartScript ==
  /\ pc = "idle"
  /\ \E dir \in OutputDirs, list \in MasterLists :
       \E b \in Splits(Len(list)) :
         /\ outputDir' = dir
         /\ vmbTestsBch' = Nest(list, b)
         /\ IF dir = None
            THEN /\ console' = <<"Generating vmb_tests...">>
                 /\ scriptThrown' = Some("Script requires an output directory.")
                 /\ pc' = "failed"
                 /\ UNCHANGED allTestCases
            ELSE /\ allTestCases' = Flat(Nest(list, b), testGroupsAndTypes)
                 /\ console' = <<"Generating vmb_tests...",
                                 "Generated vmb_tests. Writing files...">>
                 /\ pc' = "writeMaster"
                 /\ UNCHANGED scriptThrown
  /\ UNCHANGED <<supportedTestSetOverridesBCH, genVars, partitionedTestCases,
                 entryIndex, files>>

\* the master file is written and the list is partitioned; with no test set
\* the script ends here
WriteMasterFile ==
  /\ pc = "writeMaster"
  /\ \E written \in BOOLEAN :
       IF ~written
       THEN /\ scriptThrown' = Some("ENOENT")
            /\ pc' = "failed"
            /\ UNCHANGED <<files, partitionedTestCases, entryIndex, console>>
       ELSE LET partitioned == vmbTestPartitionMasterTestList(allTestCases)
            IN /\ files' = Append(files,
                    [path |-> masterFilePath(resolve(outputDir[1])),
                     data |-> jsonMasterList(allTestCases)])
               /\ partitionedTestCases' = partitioned
               /\ entryIndex' = 1
               /\ UNCHANGED scriptThrown
               /\ IF Len(partitioned) = 0
                  THEN /\ console' = Append(console, "vmb_test files written.")
                       /\ pc' = "done"
                  ELSE /\ pc' = "writeSets"
                       /\ UNCHANGED console
  /\ UNCHANGED <<supportedTestSetOverridesBCH, genVars, outputDir, vmbTestsBch,
                 allTestCases>>

\* one run of the callback of Object.entries(partitionedTestCases).forEach;
\* after the last entry the script logs and ends
WriteTestSetFile ==
  /\ pc = "writeSets"
  /\ entryIndex <= Len(partitionedTestCases)
  /\ \E written \in BOOLEAN :
       IF ~written
       THEN /\ scriptThrown' = Some("ENOENT")
            /\ pc' = "failed"
            /\ UNCHANGED <<files, entryIndex, console>>
       ELSE LET entry == partitionedTestCases[entryIndex]
            IN /\ files' = Append(files,
                    [path |-> filepathOf(resolve(outputDir[1]), entry.key),
                     data |-> jsonTestSet(entry.value)])
               /\ entryIndex' = entryIndex + 1
               /\ UNCHANGED scriptThrown
               /\ IF entryIndex = Len(partitionedTestCases)
                  THEN /\ console' = Append(console, "vmb_test files written.")
                       /\ pc' = "done"
                  ELSE /\ pc' = "writeSets"
                       /\ UNCHANGED console
  /\ UNCHANGED <<supportedTestSetOverridesBCH, genVars, outputDir, vmbTestsBch,
                 allTestCases, partitionedTestCases>>

Next ==
  \/ CallDefinitionToVmbTests
  \/ MapPlanItem
  \/ StartScript
  \/ WriteMasterFile
  \/ WriteTestSetFile

Spec == Init /\ [][Next]_vars

\* ====================================================== checked properties
vmVersionsBCH ==
  {"2021", "2022", "chip_cashtokens", "chip_limits", "chip_loops",
   "chip_minimalbool", "chip_p2sh32", "chip_strict_checkmultisig", "chip_zce"}
TestSetType == {"invalid", "nonstandard", "standard"}
TestSetIdBCH == { v \o "_" \o t : v \in vmVersionsBCH, t \in TestSetType }

InCall == pc \in {"map", "returned", "thrown"}
Partitioned == entryIndex >= 1

Occurrences(s, sets) == Cardinality({ k \in 1..Len(sets) : sets[k] = s })

\* a master tuple with its seventh field taken out
Stripped(v) == [k \in 1..(Len(v) - 1) |-> IF k < 7 THEN v[k] ELSE v[k + 1]]

\* the vectors of the master list that name s, once per occurrence, in order
RECURSIVE ExpectedSet(_, _)
ExpectedSet(master, s) ==
  IF Len(master) = 0 THEN <<>>
  ELSE LET last == master[Len(master)]
       IN ExpectedSet(SubSeq(master, 1, Len(master) - 1), s)
            \o [k \in 1..Occurrences(s, last[7]) |-> Stripped(last)]

KeysOf(p) == { p[k].key : k \in 1..Len(p) }
ValueOf(p, s) == p[CHOOSE k \in 1..Len(p) : p[k].key = s].value

\* C1: the list stored under a set id holds exactly the master vectors whose
\* testSets name that id, once per occurrence, in master order; an id named by
\* no vector is not a key, and a vector with empty testSets is under no key.
C1_PartitionGroupsBySet ==
  Partitioned =>
    /\ KeysOf(partitionedTestCases) \subseteq TestSetIdBCH
    /\ \A k1, k2 \in 1..Len(partitionedTestCases) :
         partitionedTestCases[k1].key = partitionedTestCases[k2].key => k1 = k2
    /\ \A s \in TestSetIdBCH :
         LET expected == ExpectedSet(allTestCases, s)
         IN IF Len(expected) = 0
            THEN s \notin KeysOf(partitionedTestCases)
            ELSE /\ s \in KeysOf(partitionedTestCases)
                 /\ ValueOf(partitionedTestCases, s) = expected

C1_Witness ==
  /\ Partitioned
  /\ Len(allTestCases) = 2
  /\ allTestCases[1][7] = <<"chip_loops_standard", "2021_invalid">>
  /\ allTestCases[2][7] = <<"2021_invalid">>
  /\ allTestCases[1][1] # allTestCases[2][1]
  /\ Len(partitionedTestCases) = 2
  /\ Len(ValueOf(partitionedTestCases, "2021_invalid")) = 2
  /\ ValueOf(partitionedTestCases, "2021_invalid")[1][1] = allTestCases[1][1]

\* C2: every stored entry is its master vector without testSets: the first six
\* fields in place, a seventh field equal to inputIndex exactly when the master
\* vector has one, and never the list of set ids.
C2_EntriesAreMasterWithoutSets ==
  Partitioned =>
    \A k \in 1..Len(partitionedTestCases) :
      \A j \in 1..Len(partitionedTestCases[k].value) :
        LET e == partitionedTestCases[k].value[j]
        IN \E i \in 1..Len(allTestCases) :
             LET v == allTestCases[i]
             IN /\ Occurrences(partitionedTestCases[k].key, v[7]) > 0
                /\ Len(e) = Len(v) - 1
                /\ \A f \in 1..6 : e[f] = v[f]
                /\ Len(v) = 8 => e[7] = v[8]

C2_Witness ==
  /\ Partitioned
  /\ \E k \in 1..Len(partitionedTestCases) :
       /\ Len(partitionedTestCases[k].value) = 2
       /\ Len(partitionedTestCases[k].value[1]) = 7
       /\ partitionedTestCases[k].value[1][7] = MaxInputIndex
       /\ Len(partitionedTestCases[k].value[2]) = 6
  /\ Len(allTestCases[1]) = 8
  /\ Len(allTestCases[2]) = 7

\* C3: when every generation succeeds, generateScenario is invoked once per
\* plan item, in plan order, with the unlocking script id of the item's mode;
\* one vector per item is returned, with the item's sets and the description
\* "<groupName>: <testDescription> (<mode>)".
C3_OneVectorPerPlanItem ==
  LET plan == supportedTestSetOverridesBCH[
                Join(OrElse(testDefinition.testSetOverrideLabels, <<>>), ",")]
      idOf(mode) == IF mode = "nonP2SH" THEN "unlockStandard"
                    ELSE IF mode = "P2SH20" THEN "unlockP2sh20"
                    ELSE "unlockP2sh32"
  IN /\ unlockingScriptIdOf("P2SH32") = "unlockP2sh32"
     /\ InCall =>
          /\ Len(invocations) <= Len(plan)
          /\ \A i \in 1..Len(invocations) :
               /\ invocations[i].unlockingScriptId = idOf(plan[i].mode)
               /\ invocations[i].scenarioId = "test"
     /\ pc = "map" => Len(invocations) = planIndex - 1
     /\ pc = "returned" =>
          /\ Len(invocations) = Len(plan)
          /\ IsSome(genReturned)
          /\ Len(genReturned[1]) = Len(plan)
          /\ \A i \in 1..Len(plan) :
               /\ genReturned[1][i][7] = plan[i].sets
               /\ genReturned[1][i][2] =
                    OrElse(args.groupName, "") \o ": "
                      \o testDefinition.testDescription
                      \o " (" \o plan[i].mode \o ")"

C3_Witness ==
  /\ pc = "returned"
  /\ args.groupName = Some("Basic")
  /\ testDefinition.testSetOverrideLabels = Some(<<"invalid", "2022_p2sh_standard">>)
  /\ Len(invocations) = 2
  /\ invocations[1].unlockingScriptId = "unlockStandard"
  /\ invocations[2].unlockingScriptId = "unlockP2sh20"
  /\ genReturned[1][2][2] = "Basic: works (P2SH20)"
  /\ genReturned[1][2][7] = <<"2021_invalid", "2022_standard">>

\* C4: the first failed generation (an error string, or a result whose scenario
\* is an error string) ends the call with an error naming that item's
\* description; nothing is returned and no later plan item is generated.
C4_ThrowsOnFirstFailure ==
  LET failed == { i \in 1..Len(invocations) : invocations[i].result.kind # "ok" }
  IN /\ InCall /\ failed # {} =>
          /\ pc = "thrown"
          /\ failed = {Len(invocations)}
          /\ genReturned = None
          /\ IsSome(genThrown)
          /\ Includes(genThrown[1],
               OrElse(args.groupName, "") \o ": " \o testDefinition.testDescription
                 \o " (" \o testGenerationPlan[Len(invocations)].mode \o ")")
     /\ InCall /\ failed = {} => pc # "thrown" /\ genThrown = None

C4_Witness ==
  /\ pc = "thrown"
  /\ Len(testGenerationPlan) = 2
  /\ Len(invocations) = 1
  /\ invocations[1].result.kind = "scenarioError"
  /\ genReturned = None
  /\ genThrown = Some("Error while generating \"Basic: works (nonP2SH)\" - cannot generate scenario")

\* C5: a generated vector's short id is the first shortIdLength characters (5
\* by default) of the bech32 encoding of the hash of the encoded transaction
\* followed by the encoded source outputs, so vectors with equal transaction
\* hex and source-outputs hex have equal short ids.
C5_ShortIdFromTransactionAndOutputs ==
  LET length == OrElse(args.shortIdLength, 5)
  IN InCall =>
       /\ \A i \in 1..Len(tests) :
            LET program == invocations[i].result.program
                full == encodeBech32(regroupBits(sha256Hash(
                          encodeTransaction(program.transaction)
                            \o encodeTransactionOutputs(program.sourceOutputs)),
                          5, 8))
            IN /\ Len(tests[i][1]) = length
               /\ tests[i][1] = SubSeq(full, 1, length)
       /\ \A i, j \in 1..Len(tests) :
            tests[i][5] = tests[j][5] /\ tests[i][6] = tests[j][6]
              => tests[i][1] = tests[j][1]

C5_Witness ==
  /\ pc = "returned"
  /\ args.shortIdLength = None
  /\ Len(tests) = 2
  /\ tests[1][5] = tests[2][5]
  /\ tests[1][6] = tests[2][6]
  /\ tests[1][2] # tests[2][2]
  /\ tests[1][1] = tests[2][1]
  /\ Len(tests[1][1]) = 5

\* C6: the plan is the table entry of the comma-joined labels; absent labels and
\* an empty label list both give the default plan (a nonP2SH test in the 2021
\* and 2022 nonstandard sets, then a P2SH20 test in the 2021 and 2022 standard
\* sets); resolving again gives the same plan and the table never changes.
C6_PlanIsTableLookup ==
  LET defaultPlan ==
        << [mode |-> "nonP2SH", sets |-> <<"2021_nonstandard", "2022_nonstandard">>],
           [mode |-> "P2SH20", sets |-> <<"2021_standard", "2022_standard">>] >>
      labels == testDefinition.testSetOverrideLabels
  IN /\ supportedTestSetOverridesBCH = TestSetOverridesLiteral
     /\ planTestsBCH(None) = defaultPlan
     /\ planTestsBCH(Some(<<>>)) = defaultPlan
     /\ InCall =>
          /\ testGenerationPlan = planTestsBCH(labels)
          /\ testGenerationPlan =
               TestSetOverridesLiteral[Join(OrElse(labels, <<>>), ",")]
          /\ (labels = None \/ labels = Some(<<>>)) => testGenerationPlan = defaultPlan
     /\ pc = "returned" /\ (labels = None \/ labels = Some(<<>>)) =>
          /\ Len(genReturned[1]) = 2
          /\ invocations[1].unlockingScriptId = "unlockStandard"
          /\ genReturned[1][1][7] = <<"2021_nonstandard", "2022_nonstandard">>
          /\ invocations[2].unlockingScriptId = "unlockP2sh20"
          /\ genReturned[1][2][7] = <<"2021_standard", "2022_standard">>

C6_Witness ==
  /\ pc = "returned"
  /\ testDefinition.testSetOverrideLabels = None
  /\ Len(genReturned[1]) = 2
  /\ genReturned[1][1][7] = <<"2021_nonstandard", "2022_nonstandard">>
  /\ genReturned[1][2][7] = <<"2021_standard", "2022_standard">>

\* C7: a generated master vector has seven fields, ending with testSets, when
\* the scenario's inputIndex is 0, and eight fields, the eighth being the
\* inputIndex, when it is not 0.
C7_InputIndexOmittedWhenZero ==
  InCall =>
    \A i \in 1..Len(tests) :
      LET inputIndex == invocations[i].result.program.inputIndex
      IN /\ tests[i][7] = testGenerationPlan[i].sets
         /\ IF inputIndex = 0
            THEN Len(tests[i]) = 7
            ELSE Len(tests[i]) = 8 /\ tests[i][8] = inputIndex

C7_Witness ==
  /\ pc = "returned"
  /\ Len(genReturned[1]) = 2
  /\ invocations[1].result.program.inputIndex = 0
  /\ Len(genReturned[1][1]) = 7
  /\ invocations[2].result.program.inputIndex = MaxInputIndex
  /\ Len(genReturned[1][2]) = 8
  /\ genReturned[1][2][8] = MaxInputIndex

\* C8: with an output directory, the master list is written first to
\* <outputDir>/bch_vmb_tests.json, then one file per key of the partition of
\* that list, holding that set's list, under CHIPs/ exactly when the set name
\* contains "chip"; no file for a set without tests, no path written twice.
C8_FilesWritten ==
  LET root == resolve(OrElse(outputDir, ""))
      partition == vmbTestPartitionMasterTestList(allTestCases)
      pathOf(s) == IF \E k \in 1..(Len(s) - 3) : SubSeq(s, k, k + 3) = "chip"
                   THEN root \o "/CHIPs/bch_vmb_tests_" \o s \o ".json"
                   ELSE root \o "/bch_vmb_tests_" \o s \o ".json"
      fileOf(s) == [path |-> pathOf(s), data |-> jsonTestSet(ValueOf(partition, s))]
  IN /\ Len(files) > 0 =>
          /\ IsSome(outputDir)
          /\ files[1] = [path |-> root \o "/bch_vmb_tests.json",
                         data |-> jsonMasterList(allTestCases)]
          /\ \A k \in 2..Len(files) :
               \E s \in KeysOf(partition) : files[k] = fileOf(s)
          /\ \A k1, k2 \in 1..Len(files) :
               files[k1].path = files[k2].path => k1 = k2
     /\ pc = "done" =>
          /\ Len(files) = 1 + Cardinality(KeysOf(partition))
          /\ \A s \in TestSetIdBCH :
               (\E k \in 2..Len(files) : files[k].path = pathOf(s))
                 <=> (\E i \in 1..Len(allTestCases) :
                        Occurrences(s, allTestCases[i][7]) > 0)

C8_Witness ==
  /\ pc = "done"
  /\ Len(files) = 3
  /\ files[1].path = "/work/out/bch_vmb_tests.json"
  /\ files[2].path = "/work/out/CHIPs/bch_vmb_tests_chip_loops_standard.json"
  /\ files[3].path = "/work/out/bch_vmb_tests_2021_invalid.json"
  /\ Len(allTestCases) = 2

\* C9: without the output-directory argument the script fails with "Script
\* requires an output directory." before writing any file, and never logs that
\* the files were written.
C9_RequiresOutputDirectory ==
  Len(console) > 0 /\ outputDir = None =>
    /\ pc = "failed"
    /\ scriptThrown = Some("Script requires an output directory.")
    /\ files = <<>>
    /\ \A k \in 1..Len(console) : console[k] # "vmb_test files written."

C9_Witness ==
  /\ pc = "failed"
  /\ outputDir = None
  /\ Len(vmbTestsBch) > 0
  /\ console = <<"Generating vmb_tests...">>
  /\ scriptThrown = Some("Script requires an output directory.")
  /\ files = <<>>

=============================================================================
